---- MODULE Spec2Model ----
(***************************************************************************)
(* A model of the simulation kernel of sim.py: the fixed-tick loop of      *)
(* run() (progress and lap bookkeeping, the reward-maximising choice of a  *)
(* steering candidate, Car.move, the lap timers) and the pure geometry     *)
(* helpers get_distance_list, intersection and get_merge_waypoints.        *)
(*                                                                         *)
(* Numbers.  Python floats are modelled as follows.                        *)
(*  - A reward, prev_time and record are Float records: a finite value, a  *)
(*    NaN or an infinity, compared as IEEE-754 compares them (FGt, FEq).   *)
(*    A finite reward v stands for v * 0.0001, so MIN_REWARD is 1.         *)
(*  - Times are whole seconds, angles whole degrees.                       *)
(*  - progress = closest_idx / waypoints_length * 100 is kept multiplied   *)
(*    by waypoints_length (an exact integer, ordered as the float is).     *)
(*  - A velocity is a magnitude (in units of speed / FRAME_RATE) and a     *)
(*    direction in degrees; a position is the sum of the velocity vectors  *)
(*    added to the start point, kept as a count per direction.             *)
(*  - The geometry helpers are applied to points with integer coordinates, *)
(*    their quotients kept as exact fractions (Rat).                       *)
(***************************************************************************)
EXTENDS Integers, Sequences, FiniteSets, TLC

VARIABLES
    autonomous,     \* args.autonomous, fixed for the run
    run,            \* the loop flag `run`
    pause,          \* the loop flag `pause`
    pc,             \* position in the loop: "top", "eval", "end"; "quit" after it
    now,            \* the wall clock read by time.time()
    near,           \* index of the centerline waypoint closest to car.pos
    car,            \* the player's Car: pos, angle, vel, is_bot
    bots,           \* the Bot objects: car, is_left
    steps, prev_prograss, start_time, prev_time, record,
    progress, race_time,
    indexes, max_reward, pick, angle,
    returned,       \* the rewards reward_function returned in this tick
    ticks,          \* history: iterations started so far
    limit,          \* history: iterations the run is followed for
    wrapped,        \* history: this iteration reset the lap
    laps,           \* history: number of lap resets so far
    lapTick,        \* history: the iteration of the latest lap reset
    onSweep,        \* history: closest_idx was 0, 1, 2, ... (mod length) so far
    was_paused,     \* history: `pause` during the previous iteration
    steered,        \* history: the Bot.move calls of this iteration: the bot's
                    \* heading, the bearing of its waypoint, its steering
    fn, fn_args, fn_result   \* a call of a geometry helper and what it returned

vars == << autonomous, run, pause, pc, now, near, car, bots, steps, prev_prograss,
           start_time, prev_time, record, progress, race_time, indexes,
           max_reward, pick, angle, returned, ticks, limit, wrapped, laps,
           lapTick, onSweep, was_paused, steered, fn, fn_args, fn_result >>

loopVars == << autonomous, run, pause, pc, now, near, car, bots, steps, prev_prograss,
               start_time, prev_time, record, progress, race_time, indexes,
               max_reward, pick, angle, returned, ticks, limit, wrapped, laps,
               lapTick, onSweep, was_paused, steered >>

fnVars == << fn, fn_args, fn_result >>

----------------------------------------------------------------------------
(* Bounds of the model. *)

\* waypoints_length of the track (the track module is a collaborator)
NumWaypoints == 3
\* iterations followed beyond one full sweep of the centerline
ExtraTicks == 1
\* iterations followed when every reward value is tried for every candidate
SelectTicks == 1
\* iterations followed when every heading and key is tried
CarTicks == 2
\* candidates whose reward is not finite, in one iteration
MaxNonFinite == 2
\* the longest an iteration takes, in seconds
MaxDt == 3
\* coordinates of the segment ends handed to intersection: 0 .. MaxCoord
MaxCoord == 2
\* coordinates of the points handed to get_distance_list: 0 .. WayCoord
WayCoord == 1
\* longest waypoint sequence handed to get_distance_list
MaxLen == 3
\* coordinates of the points handed to get_merge_waypoints: 0 .. MergeCoord
MergeCoord == 1
\* longest waypoint sequence handed to get_merge_waypoints
MaxMergeLen == 1
\* rate of get_merge_waypoints: k / RateDen for k in 0 .. RateDen
RateDen == 4
\* distances are kept to 1 / DistScale
DistScale == 1000

----------------------------------------------------------------------------
(* Program constants. *)

MIN_REWARD == 1

STEERING_ANGLE == << -30, -20, -10, 0, 10, 20, 30 >>

----------------------------------------------------------------------------
(* Floats. *)

Fin(v) == [k |-> "fin", v |-> v]
NaN == [k |-> "nan", v |-> 0]
PosInf == [k |-> "pinf", v |-> 0]
NegInf == [k |-> "ninf", v |-> 0]

\* a > b on floats: false whenever either side is NaN
FGt(a, b) ==
    /\ a.k # "nan"
    /\ b.k # "nan"
    /\ \/ a.k = "pinf" /\ b.k # "pinf"
       \/ a.k = "fin" /\ b.k = "ninf"
       \/ a.k = "fin" /\ b.k = "fin" /\ a.v > b.v

\* a == b on floats: false whenever either side is NaN
FEq(a, b) ==
    /\ a.k # "nan"
    /\ b.k # "nan"
    /\ a = b

FGe(a, b) == FGt(a, b) \/ FEq(a, b)

\* a < b on floats
FLt(a, b) == FGt(b, a)

IsFinite(a) == a.k = "fin"

----------------------------------------------------------------------------
(* Car *)

\* the start point: no velocity vector added yet
Origin == [d \in {} |-> 0]

\* pos + s * (the vector of direction d and the car's magnitude)
AddVel(pos, d, s) ==
    LET c == (IF d \in DOMAIN pos THEN pos[d] ELSE 0) + s
    IN  IF c = 0
        THEN [x \in (DOMAIN pos) \ {d} |-> pos[x]]
        ELSE [x \in (DOMAIN pos) \cup {d} |-> IF x = d THEN c ELSE pos[x]]

\* a wrong rotation: clockwise by a degrees
rotate_ipClockwise(vel, a) == [vel EXCEPT !.dir = (@ - a) % 360]

\* Vector2.rotate_ip(a): counterclockwise by a degrees
rotate_ip(vel, a) == [vel EXCEPT !.dir = (@ + a) % 360]

\* Car.__init__(args, pos, angle, speed, is_bot)
CarInit(a, is_bot) ==
    [ pos |-> Origin,
      angle |-> a * (-1),
      vel |-> rotate_ip([mag |-> 1, dir |-> 0], a),
      is_bot |-> is_bot ]

\* Car.get_angle
get_angle(c) == c.angle * (-1)

NoKeys == [up |-> FALSE, down |-> FALSE, left |-> FALSE, right |-> FALSE]

Keys == [up : BOOLEAN, down : BOOLEAN, left : BOOLEAN, right : BOOLEAN]

\* a wrong wraparound: an angle below -180 is left as it is
WrapAngleHigh(a) == IF a > 180 THEN a - 360 ELSE a

\* the wraparound at the end of Car.move
WrapAngle(a) ==
    IF a > 180 THEN a - 360
    ELSE IF a < -180 THEN a + 360
    ELSE a

\* Car.move(surface, angle, pause, ...) with the arrow keys held and
\* args.autonomous; the car after the call
CarMove(c, steer, paused, keys, auto) ==
    LET a == steer * (-1)
        pos1 ==
            IF paused THEN c.pos
            ELSE IF c.is_bot THEN AddVel(c.pos, c.vel.dir, 1)
            ELSE IF keys.up THEN AddVel(c.pos, c.vel.dir, 1)
            ELSE IF keys.down THEN AddVel(c.pos, c.vel.dir, -1)
            ELSE IF auto THEN AddVel(c.pos, c.vel.dir, 1)
            ELSE c.pos
        turn ==
            IF paused THEN 0
            ELSE IF c.is_bot THEN a
            ELSE IF keys.left THEN -10
            ELSE IF keys.right THEN 10
            ELSE IF auto THEN a
            ELSE 0
    IN  [ pos |-> pos1,
          angle |-> WrapAngle(c.angle + turn),
          vel |-> rotate_ip(c.vel, -turn),
          is_bot |-> c.is_bot ]

----------------------------------------------------------------------------
(* Bot *)

\* get_diff_degrees(angle1, angle2), both in degrees
get_diff_degrees(angle1, angle2) ==
    LET diff == (angle1 - angle2) % 360
    IN  IF diff >= 180 THEN diff - 360 ELSE diff

\* a wrong steering that already turns at the edge of the dead band
BotSteerAtDeadBand(b, target_angle) ==
    LET diff_angle == get_diff_degrees(get_angle(b.car), target_angle)
        abs_diff == IF diff_angle < 0 THEN 0 - diff_angle ELSE diff_angle
    IN  IF abs_diff >= 15
        THEN IF diff_angle > 0 THEN -15 ELSE 15
        ELSE 0

\* the steering of Bot.move, target_angle the bearing of the waypoint three
\* ahead of the closest one
BotSteer(b, target_angle) ==
    LET diff_angle == get_diff_degrees(get_angle(b.car), target_angle)
        abs_diff == IF diff_angle < 0 THEN 0 - diff_angle ELSE diff_angle
    IN  IF abs_diff > 15
        THEN IF diff_angle > 0 THEN -15 ELSE 15
        ELSE 0

\* a wrong Bot.move that leaves `pause` at Car.move's default, False
BotMoveUnpaused(b, target_angle, paused) ==
    [b EXCEPT !.car = CarMove(b.car, BotSteer(b, target_angle), FALSE,
                              NoKeys, FALSE)]

\* Bot.move(surface, pause); the bot after the call
BotMove(b, target_angle, paused) ==
    [b EXCEPT !.car = CarMove(b.car, BotSteer(b, target_angle), paused,
                              NoKeys, FALSE)]

\* init_bot(args): bot i heads car_angles[i + 1]
init_bot(car_angles) ==
    [i \in 1 .. Len(car_angles) |->
        [car |-> CarInit(car_angles[i], TRUE), is_left |-> (i - 1) % 2 = 0]]

----------------------------------------------------------------------------
(* Fractions: the exact value of a quotient of integers. *)

Abs(n) == IF n < 0 THEN 0 - n ELSE n

RECURSIVE Gcd(_, _)
Gcd(a, b) == IF b = 0 THEN a ELSE Gcd(b, a % b)

\* n / d in lowest terms, d # 0
Rat(n, d) ==
    LET g == Gcd(Abs(n), Abs(d))
        sg == IF d < 0 THEN -1 ELSE 1
    IN  [num |-> (sg * n) \div g, den |-> (sg * d) \div g]

RatAdd(a, b) == Rat(a.num * b.den + b.num * a.den, a.den * b.den)

RatMul(a, b) == Rat(a.num * b.num, a.den * b.den)

\* the point with the integer coordinates of p
RatPoint(p) == << Rat(p[1], 1), Rat(p[2], 1) >>

----------------------------------------------------------------------------
(* Geometry helpers. *)

\* math.sqrt(n), rounded down, for lo <= sqrt(n) <= hi
RECURSIVE SqrtFloor(_, _, _)
SqrtFloor(n, lo, hi) ==
    IF lo = hi THEN lo
    ELSE LET mid == (lo + hi + 1) \div 2
         IN  IF mid * mid <= n
             THEN SqrtFloor(n, mid, hi)
             ELSE SqrtFloor(n, lo, mid - 1)

\* get_distance(coor1, coor2), in units of 1 / DistScale
get_distance(coor1, coor2) ==
    LET sq == (coor1[1] - coor2[1]) * (coor1[1] - coor2[1])
              + (coor1[2] - coor2[2]) * (coor1[2] - coor2[2])
    IN  SqrtFloor(sq * DistScale * DistScale, 0, sq * DistScale)

\* a wrong `dist <= min_dist`: the last of several closest waypoints wins
CloserOrEqual(dist, min_dist) == FLt(dist, min_dist) \/ FEq(dist, min_dist)

\* `dist < min_dist` in get_distance_list
Closer(dist, min_dist) == FLt(dist, min_dist)

\* the loop of get_distance_list from index i (0-based) on
RECURSIVE DistanceScan(_, _, _, _)
DistanceScan(pos, waypoints, i, acc) ==
    IF i = Len(waypoints) THEN acc
    ELSE LET dist == Fin(get_distance(pos, waypoints[i + 1]))
             less == Closer(dist, acc.min_dist)
         IN  DistanceScan(pos, waypoints, i + 1,
                 [ dist_list |-> Append(acc.dist_list, dist),
                   min_dist |-> IF less THEN dist ELSE acc.min_dist,
                   min_idx |-> IF less THEN i ELSE acc.min_idx ])

\* get_distance_list(pos, waypoints)
get_distance_list(pos, waypoints) ==
    LET acc == DistanceScan(pos, waypoints, 0,
                   [dist_list |-> << >>, min_dist |-> PosInf, min_idx |-> -1])
    IN  [ dist_list |-> acc.dist_list,
          min_dist |-> acc.min_dist,
          min_idx |-> acc.min_idx,
          length |-> Len(waypoints) ]

\* what intersection returns for no point
None == << >>

\* a wrong `0 < t < 1`: the ends of a segment are not part of it
InUnitOpen(n, det) ==
    IF det > 0 THEN 0 < n /\ n < det ELSE det < n /\ n < 0

\* 0 <= n / det <= 1
InUnit(n, det) ==
    IF det > 0 THEN 0 <= n /\ n <= det ELSE det <= n /\ n <= 0

\* intersection(x1, y1, x2, y2, x3, y3, x4, y4)
intersection(x1, y1, x2, y2, x3, y3, x4, y4) ==
    LET det == (x1 - x2) * (y3 - y4) - (y1 - y2) * (x3 - x4)
        t == (x1 - x3) * (y3 - y4) - (y1 - y3) * (x3 - x4)
        u == 0 - ((x1 - x2) * (y1 - y3) - (y1 - y2) * (x1 - x3))
    IN  IF det = 0 THEN None
        ELSE IF InUnit(t, det) /\ InUnit(u, det)
        THEN << Rat(x1 * det + t * (x2 - x1), det),
                Rat(y1 * det + t * (y2 - y1), det) >>
        ELSE None

Min(a, b) == IF a < b THEN a ELSE b

\* get_merge_waypoints(points1, points2, rate)
get_merge_waypoints(points1, points2, rate) ==
    LET length == Min(Len(points1), Len(points2))
    IN  [i \in 1 .. length |->
            << RatMul(Rat(points1[i][1] + points2[i][1], 1), rate),
               RatMul(Rat(points1[i][2] + points2[i][2], 1), rate) >>]

----------------------------------------------------------------------------
(* run() *)

\* a wrong lap test without `steps > 0`
LapResetAnyStep(n, prev, prog) == prev > prog

\* `steps > 0 and prev_prograss > progress`
LapReset(n, prev, prog) == n > 0 /\ prev > prog

\* a wrong `max_reward = 0`
InitialMaxZero == Fin(0)

\* `max_reward = MIN_REWARD` before the loop over STEERING_ANGLE
InitialMax == Fin(MIN_REWARD)

\* a wrong new maximum that forgets indexes.clear()
LeaderKept(idxs, i) == Append(idxs, i)

\* indexes after a new maximum at candidate i: clear, then append
Leader(idxs, i) == << i >>

\* progress = (closest_idx / waypoints_length) * 100, times waypoints_length
ProgressOf(closest_idx) == closest_idx * 100

\* the state after the set-up of run(), the car heading car_angle
InitLoop(car_angle, bot_angles, auto, n) ==
    /\ autonomous = auto
    /\ run = TRUE
    /\ pause = FALSE
    /\ pc = "top"
    /\ now = 0
    /\ near = 0
    /\ car = CarInit(car_angle, FALSE)
    /\ bots = init_bot(bot_angles)
    /\ steps = 0
    /\ prev_prograss = 100 * NumWaypoints
    /\ start_time = 0
    /\ prev_time = PosInf
    /\ record = PosInf
    /\ progress = 0
    /\ race_time = 0
    /\ indexes = << >>
    /\ max_reward = InitialMax
    /\ pick = -1
    /\ angle = 0
    /\ returned = << >>
    /\ ticks = 0
    /\ limit = n
    /\ wrapped = FALSE
    /\ laps = 0
    /\ lapTick = 0
    /\ onSweep = TRUE
    /\ was_paused = FALSE
    /\ steered = << >>

NoCall ==
    /\ fn = "none"
    /\ fn_args = << >>
    /\ fn_result = << >>

\* the quit event, ESC or q, seen at the top of an iteration: the loop ends
\* and run() returns; its locals are gone, which is modelled by giving them
\* the values they had before the loop
Stop ==
    /\ pc = "top"
    /\ run
    /\ run' = FALSE
    /\ pc' = "quit"
    /\ pause' = FALSE
    /\ now' = 0
    /\ near' = 0
    /\ car' = CarInit(0, FALSE)
    /\ bots' = << >>
    /\ steps' = 0
    /\ prev_prograss' = 100 * NumWaypoints
    /\ start_time' = 0
    /\ prev_time' = PosInf
    /\ record' = PosInf
    /\ progress' = 0
    /\ race_time' = 0
    /\ indexes' = << >>
    /\ max_reward' = InitialMax
    /\ pick' = -1
    /\ angle' = 0
    /\ returned' = << >>
    /\ ticks' = 0
    /\ wrapped' = FALSE
    /\ laps' = 0
    /\ lapTick' = 0
    /\ onSweep' = TRUE
    /\ was_paused' = FALSE
    /\ steered' = << >>
    /\ UNCHANGED << autonomous, limit >>
    /\ UNCHANGED fnVars

\* an iteration up to the loop over STEERING_ANGLE: the pause key, the closest
\* waypoint, progress and the lap reset, the bots' moves (bot i steering for
\* the bearing targets[i]), the locals of the choice
TickBegin(pauseKey, targets) ==
    /\ pc = "top"
    /\ run
    /\ ticks < limit
    /\ LET closest_idx == near
           prog == ProgressOf(closest_idx)
           reset == LapReset(steps, prev_prograss, prog)
       IN  /\ pause' = (pause # pauseKey)
           /\ progress' = prog
           /\ steps' = (IF reset THEN 0 ELSE steps) + 1
           /\ start_time' = IF reset THEN now ELSE start_time
           /\ prev_prograss' = prog
           /\ wrapped' = reset
           /\ laps' = IF reset THEN laps + 1 ELSE laps
           /\ lapTick' = IF reset THEN ticks + 1 ELSE lapTick
           /\ onSweep' = (onSweep /\ closest_idx = ticks % NumWaypoints)
    /\ bots' = [i \in 1 .. Len(bots) |-> BotMove(bots[i], targets[i], pause')]
    /\ was_paused' = pause
    /\ steered' = [i \in 1 .. Len(bots) |->
                      [heading |-> get_angle(bots[i].car),
                       target_angle |-> targets[i],
                       angle |-> BotSteer(bots[i], targets[i])]]
    /\ ticks' = ticks + 1
    /\ indexes' = << >>
    /\ returned' = << >>
    /\ pick' = -1
    /\ max_reward' = InitialMax
    /\ angle' = 0
    /\ pc' = IF pause' THEN "end" ELSE "eval"
    /\ UNCHANGED << autonomous, run, now, near, car, prev_time, record,
                    race_time, limit >>
    /\ UNCHANGED fnVars

\* one pass of the loop over STEERING_ANGLE: reward_function returns `reward`
\* for candidate i
Eval(reward) ==
    /\ pc = "eval"
    /\ LET i == Len(returned)
       IN  /\ returned' = Append(returned, reward)
           /\ IF FGt(reward, max_reward)
              THEN /\ indexes' = Leader(indexes, i)
                   /\ max_reward' = reward
              ELSE IF FEq(reward, max_reward)
              THEN /\ indexes' = Append(indexes, i)
                   /\ max_reward' = max_reward
              ELSE /\ indexes' = indexes
                   /\ max_reward' = max_reward
           /\ pc' = IF i + 1 = Len(STEERING_ANGLE) THEN "end" ELSE "eval"
    /\ UNCHANGED << autonomous, run, pause, now, near, car, bots, steps,
                    prev_prograss, start_time, prev_time, record, progress,
                    race_time, pick, angle, ticks, limit, wrapped, laps,
                    lapTick, onSweep, was_paused, steered >>
    /\ UNCHANGED fnVars

\* the rest of the iteration: the pick (random.randint draws `choice`),
\* car.move with the arrow keys `keys`, the lap timers, and clock.tick, which
\* returns dt seconds later; the moved car is closest to waypoint nearNew
TickEnd(choice, keys, dt, nearNew) ==
    /\ pc = "end"
    /\ LET n == Len(indexes)
       IN  IF n = 0
           THEN /\ choice = 0
                /\ pick' = pick
                /\ angle' = 0
           ELSE IF n = 1
           THEN /\ choice = 0
                /\ pick' = indexes[1]
                /\ angle' = STEERING_ANGLE[pick' + 1]
           ELSE /\ choice \in 0 .. (n - 1)
                /\ pick' = indexes[choice + 1]
                /\ angle' = STEERING_ANGLE[pick' + 1]
    /\ car' = CarMove(car, angle', pause, keys, autonomous)
    /\ near' = IF car'.pos = car.pos THEN near ELSE nearNew
    /\ nearNew = near'
    /\ race_time' = now - start_time
    /\ record' = IF progress = 0 /\ FGt(prev_time, Fin(5))
                 THEN prev_time
                 ELSE record
    /\ prev_time' = Fin(race_time')
    /\ now' = now + dt
    /\ pc' = "top"
    /\ UNCHANGED << autonomous, run, pause, bots, steps, prev_prograss, start_time,
                    progress, indexes, max_reward, returned, ticks, limit,
                    wrapped, laps, lapTick, onSweep, was_paused, steered >>
    /\ UNCHANGED fnVars

----------------------------------------------------------------------------
(* Specifications of the loop. *)

\* the values reward_function may return: not a number, the infinities, and
\* finite ones below the floor, at the floor and above it
RewardValues ==
    {NaN, NegInf, PosInf} \cup {Fin(v) : v \in 0 .. (MIN_REWARD + 1)}

\* the bearings math.degrees(atan2(..)) may return, to 15 degrees (atan2
\* returns -pi only for a negative zero, which no difference of waypoint
\* coordinates is)
Bearings == {h \in -179 .. 180 : h % 15 = 0}

\* the bearings handed to the bots
Targets == [1 .. Len(bots) -> Bearings]

\* how many of the rewards rs are not finite
NonFinite(rs) == Cardinality({j \in 1 .. Len(rs) : ~IsFinite(rs[j])})

\* SpecSelect: every reward for every candidate, at most MaxNonFinite of them
\* not finite; nobody drives the car
InitSelect == InitLoop(0, << >>, FALSE, SelectTicks) /\ NoCall

NextSelect ==
    \/ Stop
    \/ \E p \in BOOLEAN : TickBegin(p, << >>)
    \/ \E r \in RewardValues :
          /\ IsFinite(r) \/ NonFinite(returned) < MaxNonFinite
          /\ Eval(r)
    \/ \E c \in 0 .. 6 : TickEnd(c, NoKeys, 0, near)

SpecSelect == InitSelect /\ [][NextSelect]_vars

\* SpecCar: every heading, steering candidate and arrow key for the player
\* alone on the track, and every heading and bearing for a bot in front of a
\* parked player
InitCar ==
    /\ \/ \E h \in Bearings : InitLoop(h, << >>, TRUE, CarTicks)
       \/ \E h \in Bearings : InitLoop(0, << h >>, FALSE, CarTicks)
    /\ NoCall

NextCar ==
    \/ Stop
    \/ \E p \in BOOLEAN : \E t \in Targets : TickBegin(p, t)
    \/ \E r \in {Fin(0), Fin(MIN_REWARD)} :
          /\ r = Fin(MIN_REWARD) => (indexes = << >> /\ bots = << >>)
          /\ Eval(r)
    \/ \E k \in Keys :
          /\ bots # << >> => k = NoKeys
          /\ TickEnd(0, k, 0, near)

SpecCar == InitCar /\ [][NextCar]_vars

\* SpecLap: every closest waypoint, pause and duration of an iteration for a
\* car that holds its course
InitLap == InitLoop(0, << >>, TRUE, NumWaypoints + ExtraTicks) /\ NoCall

NextLap ==
    \/ Stop
    \/ \E p \in BOOLEAN : TickBegin(p, << >>)
    \/ Eval(Fin(0))
    \/ \E dt \in 0 .. MaxDt : \E nearNew \in 0 .. (NumWaypoints - 1) :
          TickEnd(0, NoKeys, dt, nearNew)

SpecLap == InitLap /\ [][NextLap]_vars

----------------------------------------------------------------------------
(* Specification of the geometry helpers: each is called once on arguments *)
(* drawn from a grid.                                                      *)

\* all sequences over S of length lo .. hi
SeqsOf(S, lo, hi) == UNION {[1 .. n -> S] : n \in lo .. hi}

WayGrid == (0 .. WayCoord) \X (0 .. WayCoord)

MergeGrid == (0 .. MergeCoord) \X (0 .. MergeCoord)

Rates == {Rat(k, RateDen) : k \in 0 .. RateDen}

InitGeo ==
    /\ InitLoop(0, << >>, FALSE, 0)
    /\ fn_result = << >>
    /\ \/ /\ fn = "get_distance_list"
          /\ fn_args \in [pos : WayGrid, waypoints : SeqsOf(WayGrid, 1, MaxLen)]
       \/ /\ fn = "intersection"
          /\ fn_args \in [1 .. 8 -> 0 .. MaxCoord]
       \/ /\ fn = "get_merge_waypoints"
          /\ fn_args \in [ points1 : SeqsOf(MergeGrid, 0, MaxMergeLen),
                           points2 : SeqsOf(MergeGrid, 0, MaxMergeLen),
                           rate : Rates ]

CallDistanceList ==
    /\ fn = "get_distance_list"
    /\ fn' = "get_distance_list returned"
    /\ fn_result' = get_distance_list(fn_args.pos, fn_args.waypoints)
    /\ UNCHANGED fn_args
    /\ UNCHANGED loopVars

CallIntersection ==
    /\ fn = "intersection"
    /\ fn' = "intersection returned"
    /\ fn_result' = intersection(fn_args[1], fn_args[2], fn_args[3], fn_args[4],
                                 fn_args[5], fn_args[6], fn_args[7], fn_args[8])
    /\ UNCHANGED fn_args
    /\ UNCHANGED loopVars

CallMerge ==
    /\ fn = "get_merge_waypoints"
    /\ fn' = "get_merge_waypoints returned"
    /\ fn_result' = get_merge_waypoints(fn_args.points1, fn_args.points2,
                                        fn_args.rate)
    /\ UNCHANGED fn_args
    /\ UNCHANGED loopVars

NextGeo == CallDistanceList \/ CallIntersection \/ CallMerge

SpecGeo == InitGeo /\ [][NextGeo]_vars

----------------------------------------------------------------------------
(* The action selector (SpecSelect). *)

\* an iteration has run to its end, and was not paused
TickRan == pc = "top" /\ ticks > 0 /\ ~pause

Floor == Fin(MIN_REWARD)

\* a reward that does not reach the floor: less than it, or not a number
BelowFloor(r) == ~FGe(r, Floor)

\* the candidates (0-based) whose reward no other reward exceeds, rewards
\* that are not a number left out
Maximal(rs) ==
    {j \in 0 .. (Len(rs) - 1) :
        /\ rs[j + 1] # NaN
        /\ \A m \in 1 .. Len(rs) : rs[m] = NaN \/ FGe(rs[j + 1], rs[m])}

\* C1: after a non-paused iteration in which every candidate's reward is
\* below MIN_REWARD, the steering angle handed to car.move is 0 and pick is
\* still -1, whatever the order of the rewards.
C1_FloorHolds ==
    (TickRan /\ \A j \in 1 .. Len(returned) : BelowFloor(returned[j]))
        => (angle = 0 /\ pick = -1 /\ indexes = << >>)

\* C1 happens: seven rewards below the floor, not all the same, and a hold
C1_Witness ==
    /\ TickRan
    /\ Len(returned) = Len(STEERING_ANGLE)
    /\ \A j \in 1 .. Len(returned) : BelowFloor(returned[j])
    /\ returned[1] = Fin(0)
    /\ returned[2] = NegInf
    /\ returned[7] = NaN
    /\ pick = -1

\* C2: after a non-paused iteration in which some candidate's reward reaches
\* MIN_REWARD, pick is one of the candidates whose reward is the maximum of
\* the seven (so the only one when one candidate achieves it, and one of the
\* tied ones otherwise), and angle is that candidate's steering angle.
C2_PickIsMaximal ==
    (TickRan /\ \E j \in 1 .. Len(returned) : FGe(returned[j], Floor))
        => /\ Len(returned) = Len(STEERING_ANGLE)
           /\ pick \in Maximal(returned)
           /\ angle = STEERING_ANGLE[pick + 1]

\* C2 happens: three candidates tie for a finite maximum after a smaller
\* reward that reached the floor, and the pick is the last of the three
C2_Witness ==
    /\ TickRan
    /\ Len(returned) = Len(STEERING_ANGLE)
    /\ returned[1] = Floor
    /\ Maximal(returned) = {1, 3, 6}
    /\ returned[2] = Fin(MIN_REWARD + 1)
    /\ pick = 6

\* C3: after a non-paused iteration the picked candidate's reward is finite:
\* a candidate whose reward is not a number or an infinity is never picked.
C3_NonFiniteNeverPicked ==
    (TickRan /\ pick # -1) => IsFinite(returned[pick + 1])

----------------------------------------------------------------------------
(* Headings (SpecCar). *)

\* the player's car and the bots' cars
Cars == {car} \cup {bots[i].car : i \in 1 .. Len(bots)}

----------------------------------------------------------------------------
(* Laps and timers (SpecLap). *)

\* C5: while the closest waypoint over the iterations from the first one on
\* is 0, 1, ..., N-1, 0, the loop resets the lap exactly once, in the
\* iteration of the step from N-1 back to 0 (steps restarts, start_time is the
\* time of that iteration), and not in the first iteration.
C5_SweepResetsOnce ==
    onSweep =>
        /\ ticks <= NumWaypoints =>
              (laps = 0 /\ ~wrapped /\ steps = ticks /\ start_time = 0)
        /\ ticks = NumWaypoints + 1 =>
              /\ laps = 1
              /\ lapTick = NumWaypoints + 1
              /\ wrapped
              /\ steps = 1
              /\ pc # "top" => start_time = now

\* C5 happens: the sweep is done, time has passed, the iteration of the step
\* back to waypoint 0 is over
C5_Witness ==
    /\ onSweep
    /\ ticks = NumWaypoints + 1
    /\ pc = "top"
    /\ run
    /\ start_time > 0
    /\ laps = 1

\* C6: while the loop runs, record changes only in an iteration that detected
\* a lap wrap, and only to a smaller value than the stored one.
C6_RecordOnlyOnBetterLap ==
    [][(run' /\ record' # record) => (wrapped /\ FGt(record, record'))]_vars

\* C7: the lap time does not grow while paused: an iteration that is paused
\* and follows a paused iteration computes the same race_time.
C7_PauseFreezesLapTime ==
    [][(pc = "end" /\ pc' = "top" /\ pause /\ was_paused)
          => race_time' = race_time]_vars

----------------------------------------------------------------------------
(* The geometry helpers (SpecGeo). *)

\* C8: for a non-empty waypoint sequence get_distance_list returns an index
\* no other index is strictly closer than, the distance of that index, and
\* the smallest of the indices at that distance.
C8_NearestIsFirstMinimum ==
    fn = "get_distance_list returned" =>
        LET pos == fn_args.pos
            waypoints == fn_args.waypoints
            D(j) == get_distance(pos, waypoints[j + 1])
            i == fn_result.min_idx
        IN  /\ i \in 0 .. (Len(waypoints) - 1)
            /\ fn_result.length = Len(waypoints)
            /\ fn_result.min_dist = Fin(D(i))
            /\ \A j \in 0 .. (Len(waypoints) - 1) : D(j) >= D(i)
            /\ \A j \in 0 .. (i - 1) : D(j) > D(i)

\* C8 happens: the second and the third waypoint are equally close, the
\* first one is farther, and the second one is returned
C8_Witness ==
    /\ fn = "get_distance_list returned"
    /\ Len(fn_args.waypoints) = 3
    /\ fn_args.waypoints[2] # fn_args.waypoints[3]
    /\ get_distance(fn_args.pos, fn_args.waypoints[2])
         = get_distance(fn_args.pos, fn_args.waypoints[3])
    /\ get_distance(fn_args.pos, fn_args.waypoints[1])
         > get_distance(fn_args.pos, fn_args.waypoints[2])
    /\ fn_result.min_idx = 1

\* the ends of the two segments handed to intersection
P1 == << fn_args[1], fn_args[2] >>
P2 == << fn_args[3], fn_args[4] >>
P3 == << fn_args[5], fn_args[6] >>
P4 == << fn_args[7], fn_args[8] >>

\* the other end of the segment a b, seen from its end e
OtherEnd(a, b, e) == IF a = e THEN b ELSE a

\* (a - e) x (b - e) and (a - e) . (b - e)
Cross(e, a, b) ==
    (a[1] - e[1]) * (b[2] - e[2]) - (a[2] - e[2]) * (b[1] - e[1])

Dot(e, a, b) ==
    (a[1] - e[1]) * (b[1] - e[1]) + (a[2] - e[2]) * (b[2] - e[2])

\* both segments have e as an end and lie on one line
CollinearAt(e) == Cross(e, OtherEnd(P1, P2, e), OtherEnd(P3, P4, e)) = 0

\* neither segment is a point, e is an end of both, and they have no other
\* point in common: they leave e along different lines, or along one line in
\* opposite directions
TouchOnlyAt(e) ==
    /\ P1 # P2
    /\ P3 # P4
    /\ e \in {P1, P2} \cap {P3, P4}
    /\ \/ ~CollinearAt(e)
       \/ Dot(e, OtherEnd(P1, P2, e), OtherEnd(P3, P4, e)) < 0

EndPoints == {P1, P2, P3, P4}

\* C9, as amended: for two segments, neither a point, whose only common point
\* is an end of both, intersection returns that end when the segments do not
\* lie on one line, and None when they do (they touch end to end).
C9_SharedEndUnlessCollinear ==
    fn = "intersection returned" =>
        \A e \in EndPoints :
            TouchOnlyAt(e) =>
                fn_result = IF CollinearAt(e) THEN None ELSE RatPoint(e)

\* C9 happens: the first segment ends where the second starts, at an angle
C9_Witness ==
    /\ fn = "intersection returned"
    /\ TouchOnlyAt(P2)
    /\ P2 = P3
    /\ ~CollinearAt(P2)
    /\ fn_result = RatPoint(P2)

\* C9, as claimed: for two segments, neither a point, whose only common point
\* is an end of both, intersection returns that end, also when they lie on
\* one line and touch end to end.
C9_SharedEndAlways ==
    fn = "intersection returned" =>
        \A e \in EndPoints : TouchOnlyAt(e) => fn_result = RatPoint(e)

\* (1 - rate) * a + rate * b
Convex(a, b, rate) ==
    RatAdd(RatMul(Rat(a, 1), Rat(rate.den - rate.num, rate.den)),
           RatMul(Rat(b, 1), rate))

\* C10: get_merge_waypoints returns min(len(a), len(b)) points, the i-th the
\* convex combination (1 - rate) * a[i] + rate * b[i], for every rate in
\* [0, 1].
C10_MergeIsConvex ==
    fn = "get_merge_waypoints returned" =>
        LET a == fn_args.points1
            b == fn_args.points2
        IN  /\ Len(fn_result) = Min(Len(a), Len(b))
            /\ \A i \in 1 .. Len(fn_result) :
                  fn_result[i] = << Convex(a[i][1], b[i][1], fn_args.rate),
                                    Convex(a[i][2], b[i][2], fn_args.rate) >>

----------------------------------------------------------------------------
(* Bot steering. *)

\* the angle that differs from d by whole turns and lies in lo .. lo + 359
Normalized(d, lo) == CHOOSE e \in lo .. (lo + 359) : (e - d) % 360 = 0

\* no steering within 15 degrees of error, 15 degrees against the error beyond
SteeringFor(e) == IF e > 15 THEN -15 ELSE IF e < -15 THEN 15 ELSE 0

\* C11, as amended: with e the difference between the bot's heading and the
\* bearing of its lookahead waypoint, normalized into [-180, 180), Bot.move
\* steers 0 when |e| <= 15 and otherwise 15 degrees against e (e > 0 gives
\* -15, e < 0 gives +15); an error of exactly 180 degrees counts as -180 and
\* gives +15.
C11_SteersAgainstError ==
    \A i \in 1 .. Len(steered) :
        steered[i].angle =
            SteeringFor(Normalized(steered[i].heading - steered[i].target_angle,
                                   -180))

\* C11 happens: a bot has steered for a waypoint straight behind it
C11_Witness ==
    \E i \in 1 .. Len(steered) :
        /\ (steered[i].heading - steered[i].target_angle) % 360 = 180
        /\ steered[i].angle = 15

\* C11, as claimed: the same with e normalized into (-180, 180], so that an
\* error of exactly 180 degrees is positive and gives -15.
C11_SteersAgainstErrorHigh ==
    \A i \in 1 .. Len(steered) :
        steered[i].angle =
            SteeringFor(Normalized(steered[i].heading - steered[i].target_angle,
                                   -179))

----------------------------------------------------------------------------
(* Velocity and heading. *)

\* C12: once a Car is constructed, and after any Car.move calls (a bot's, the
\* autonomous player's or the keyboard's steering, paused or not, across the
\* heading's wraparound or not), the direction of its velocity is its
\* reported heading modulo 360 degrees and the magnitude of its velocity is
\* speed / FRAME_RATE.
C12_VelocityTracksHeading ==
    \A c \in Cars :
        /\ c.vel.dir = get_angle(c) % 360
        /\ c.vel.mag = 1

\* C12 happens: the player's car has left the start and turned through the
\* wraparound, from a heading of 180 to one of -170
C12_Witness ==
    /\ pc = "top"
    /\ ticks > 0
    /\ car.pos # Origin
    /\ get_angle(car) = -170
    /\ car.vel.dir = 190

----------------------------------------------------------------------------
(* Pause. *)

\* the position and the reported heading of every car, the player's first
Placement ==
    << << car.pos, get_angle(car) >> >> \o
    [i \in 1 .. Len(bots) |-> << bots[i].car.pos, get_angle(bots[i].car) >>]

\* C13: in an iteration run while the loop is paused, the position and the
\* heading of the player's car and of every bot stay as they are, whatever
\* keys are held, no steering candidate is evaluated and none is picked (pick
\* stays -1, angle 0); so motion resumes from the position and heading the
\* cars had when the pause began.
C13_PauseFreezesMotion ==
    [][ /\ (pc = "top" /\ pause') =>
            /\ Placement' = Placement
            /\ pc' = "end"
            /\ returned' = << >>
            /\ pick' = -1
            /\ angle' = 0
        /\ (pc = "end" /\ pause) =>
            /\ Placement' = Placement
            /\ returned' = << >>
            /\ pick' = -1
            /\ angle' = 0 ]_vars

\* C13 happens: a paused iteration has ended, after one in which a bot drove,
\* and the bot had a turn to make in it
C13_Witness ==
    /\ pc = "top"
    /\ ticks > 1
    /\ pause
    /\ ~was_paused
    /\ Len(bots) = 1
    /\ bots[1].car.pos # Origin
    /\ steered[1].angle # 0

====
